---- MODULE Spec2Model ----
(***************************************************************************)
(* A model of mailer.py: the file-backed UniqueJournal, the round-robin    *)
(* split_recipients_by_senders, and the daily run loop of main().          *)
(*                                                                         *)
(* Strings are sequences of one-character strings, so that the journal's   *)
(* file format ("\n".join on write, readlines/rstrip on read) is computed  *)
(* and not assumed to round-trip.                                          *)
(***************************************************************************)
EXTENDS Integers, Sequences, FiniteSets, TLC

VARIABLES
    file,               \* processed-emails.txt: [exists, data]
    jpc,                \* per thread: position inside UniqueJournal.add
    jarg,               \* per thread: the `row` argument of the running add
    jrows,              \* per thread: the local list `rows` of the running add
    held,               \* the lock objects currently acquired
    hist,               \* the add calls that returned: [row, before, after]
    proc,               \* "up" | "crashed": the process that owns the threads
    fresh,              \* get_rows() of a freshly constructed journal, or NotRead
    s_senders,          \* split_recipients_by_senders: argument `senders`
    s_recipients,       \* split_recipients_by_senders: argument `recipients`
    s_result,           \* split_recipients_by_senders: local `result`
    s_cycle,            \* position of the iterator `senders_cycle`
    s_queue,            \* local `recipients_queue`
    s_pc,               \* "call" | "while" | "for" | "returned" | "off"
    senders,            \* main: the loaded list `senders`
    recipients,         \* main: the loaded list `recipients`
    mpc,                \* main: the statement the process is at
    passes,             \* main: iterations of `while True` begun so far
    remaining,          \* main: `remaining_recipients`
    plan,               \* main: `senders_recipients`
    queue,              \* main: the scheduler's events, in execution order
    task,               \* main: the event whose action is running
    pass_rows,          \* the journal's rows when the pass computed `remaining`
    pass_log,           \* the tasks run in the pass, with their outcomes
    delivered,          \* per email: send_email calls that returned (up to 2)
    unrecorded,         \* a send_email call returned and its add did not
    restarted,          \* the process was started again after a crash
    now,                \* the clock read by time.time() and datetime.now()
    next_iteration_at,  \* main: `next_iteration_at`
    pass_at,            \* the clock when the iteration began
    runs                \* the tasks run in the pass: [sender, offset, start, end]

jvars == <<file, jpc, jarg, jrows, held, hist, proc, fresh>>
svars == <<s_senders, s_recipients, s_result, s_cycle, s_queue, s_pc>>
mvars == <<senders, recipients, mpc, passes, remaining, plan, queue, task,
           pass_rows, pass_log, delivered, unrecorded, restarted,
           now, next_iteration_at, pass_at, runs>>
vars == <<file, jpc, jarg, jrows, held, hist, proc, fresh,
          s_senders, s_recipients, s_result, s_cycle, s_queue, s_pc,
          senders, recipients, mpc, passes, remaining, plan, queue, task,
          pass_rows, pass_log, delivered, unrecorded, restarted,
          now, next_iteration_at, pass_at, runs>>

----------------------------------------------------------------------------
(* Bounds of the model. *)

MaxRowLen == 2          \* longest identifier handed to add
MaxCalls == 2           \* add calls per thread
MaxDiskRows == 1        \* identifiers in a journal left by earlier runs
MaxSenders == 3         \* longest sender list given to the split
MaxSplitRecipients == 4 \* longest recipient list given to the split
MaxMainSenders == 2     \* longest sender list loaded by main
MaxRecipients == 3      \* longest recipient list loaded by main
MaxPasses == 2          \* iterations of main's loop that are counted
PassCap == 2            \* the cap of line 257 (50 in the code), scaled down
LongSend == 50000       \* seconds a slow send_email call takes
EnterTick == 1          \* seconds a slow scheduler.enter call takes

\* line 260: seconds between two sends of one sender
Stagger == 1560

\* line 267: timedelta(days=1), in seconds
Day == 86400

----------------------------------------------------------------------------
(* Generic helpers. *)

Range(s) == {s[i] : i \in 1..Len(s)}

SeqsUpTo(S, n) == UNION {[1..k -> S] : k \in 0..n}

Count(x, s) == Cardinality({i \in 1..Len(s) : s[i] = x})

NoDuplicates(s) == \A i, j \in 1..Len(s) : s[i] = s[j] => i = j

Front(s) == SubSeq(s, 1, Len(s) - 1)

----------------------------------------------------------------------------
(* Text: characters, identifiers, and the journal's file format. *)

LF == "\n"
CR == "\r"
Chars == {"x", LF, CR}

\* every string of at most MaxRowLen characters, the empty string included
Rows == SeqsUpTo(Chars, MaxRowLen)

\* an identifier that occupies exactly one line of the file
OneLine(row) == row # <<>> /\ LF \notin Range(row) /\ CR \notin Range(row)

\* a faulty variant of JoinLF: "".join(rows), the separator forgotten
RECURSIVE JoinNoSeparator(_)
JoinNoSeparator(rows) ==
    IF rows = <<>> THEN <<>> ELSE rows[1] \o JoinNoSeparator(Tail(rows))

\* "\n".join(rows)
RECURSIVE JoinLF(_)
JoinLF(rows) ==
    IF rows = <<>> THEN <<>>
    ELSE IF Len(rows) = 1 THEN rows[1]
    ELSE rows[1] \o <<LF>> \o JoinLF(Tail(rows))

\* reading in text mode (newline=None): "\r\n" and "\r" arrive as "\n"
RECURSIVE UniversalNewlines(_)
UniversalNewlines(data) ==
    IF data = <<>> THEN <<>>
    ELSE IF Head(data) = CR
         THEN IF Len(data) > 1 /\ data[2] = LF
              THEN <<LF>> \o UniversalNewlines(Tail(Tail(data)))
              ELSE <<LF>> \o UniversalNewlines(Tail(data))
         ELSE <<Head(data)>> \o UniversalNewlines(Tail(data))

\* f.readlines(): the lines, each with its line end kept
RECURSIVE ReadLines(_, _)
ReadLines(text, line) ==
    IF text = <<>> THEN (IF line = <<>> THEN <<>> ELSE <<line>>)
    ELSE IF Head(text) = LF
         THEN <<line \o <<LF>>>> \o ReadLines(Tail(text), <<>>)
         ELSE ReadLines(Tail(text), line \o <<Head(text)>>)

\* i.rstrip("\n")
RECURSIVE RStripLF(_)
RStripLF(line) ==
    IF line # <<>> /\ line[Len(line)] = LF THEN RStripLF(Front(line)) ELSE line

\* [i.rstrip("\n") for i in lines if i != "\n"]
RECURSIVE StripNonBlank(_)
StripNonBlank(lines) ==
    IF lines = <<>> THEN <<>>
    ELSE IF Head(lines) = <<LF>>
         THEN StripNonBlank(Tail(lines))
         ELSE <<RStripLF(Head(lines))>> \o StripNonBlank(Tail(lines))

\* UniqueJournal._rows over the file's bytes
_rows(data) == StripNonBlank(ReadLines(UniversalNewlines(data), <<>>))

\* open(filename, mode="w"): the file exists and is empty
OpenTruncate(f) == [exists |-> TRUE, data |-> <<>>]

\* f.write(text) flushed at close: text laid over the file from offset 0
WriteAtStart(f, text) ==
    [exists |-> TRUE,
     data |-> text \o SubSeq(f.data, Len(text) + 1, Len(f.data))]

\* UniqueJournal._save, run without interruption
_save(f, rows) == WriteAtStart(OpenTruncate(f), JoinLF(rows))

\* a faulty variant of JournalInit: the file is opened for writing whether or not it
\* exists
JournalInitTruncates(f) == OpenTruncate(f)

\* UniqueJournal.__init__: the file is created only when it is absent
JournalInit(f) == IF f.exists THEN f ELSE OpenTruncate(f)

\* UniqueJournal.get_rows
get_rows(f) == _rows(f.data)

\* a faulty variant of Present: the membership test never finds the row
PresentNever(row, rows) == FALSE

\* line 35: row in rows
Present(row, rows) == row \in Range(rows)

\* UniqueJournal.add, run without interruption
add(f, row) ==
    LET rows == _rows(f.data)
    IN IF Present(row, rows) THEN f ELSE _save(f, Append(rows, row))

----------------------------------------------------------------------------
(* The journal used by threads of one process: UniqueJournal.add step by   *)
(* step.  Every open, read and write of the file system succeeds here; the *)
(* run loop below models a failing add.                                    *)

Threads == {"t1", "t2"}

NotRead == <<"not read">>

NoFile == [exists |-> FALSE, data |-> <<>>]

OneLineRows == {r \in Rows : OneLine(r)}

\* what earlier runs can have left on disk: nothing, or a saved list of
\* distinct one-line identifiers
DiskFiles ==
    {NoFile} \cup
    {_save(NoFile, r) : r \in {q \in SeqsUpTo(OneLineRows, MaxDiskRows) : NoDuplicates(q)}}

\* `with threading.Lock():` the lock object the statement acquires is the
\* one its own expression has just created
LockOf(t) == [created_by |-> t]

CallsOf(t) == Cardinality({i \in 1..Len(hist) : hist[i].thread = t})

JournalInitState ==
    /\ file \in {JournalInit(f) : f \in DiskFiles}
    /\ jpc = [t \in Threads |-> "idle"]
    /\ jarg = [t \in Threads |-> <<>>]
    /\ jrows = [t \in Threads |-> <<>>]
    /\ held = {}
    /\ hist = <<>>
    /\ proc = "up"
    /\ fresh = NotRead

NoTask ==
    [time |-> 0, offset |-> 0,
     sender |-> [email |-> "none", password |-> "none"],
     recipient |-> [email |-> <<>>, obj |-> 0]]

MainOff ==
    /\ senders = <<>>
    /\ recipients = <<>>
    /\ mpc = "off"
    /\ passes = 0
    /\ remaining = <<>>
    /\ plan = <<>>
    /\ queue = <<>>
    /\ task = NoTask
    /\ pass_rows = <<>>
    /\ pass_log = <<>>
    /\ delivered = <<>>
    /\ unrecorded = FALSE
    /\ restarted = FALSE
    /\ now = 0
    /\ next_iteration_at = 0
    /\ pass_at = 0
    /\ runs = <<>>

SplitOff ==
    /\ s_senders = <<>>
    /\ s_recipients = <<>>
    /\ s_result = <<>>
    /\ s_cycle = 0
    /\ s_queue = <<>>
    /\ s_pc = "off"

\* a caller enters add(row)
AddCall(t, row) ==
    /\ proc = "up"
    /\ jpc[t] = "idle"
    /\ CallsOf(t) < MaxCalls
    /\ jarg' = [jarg EXCEPT ![t] = row]
    /\ jpc' = [jpc EXCEPT ![t] = "lock"]
    /\ UNCHANGED <<file, jrows, held, hist, proc, fresh>>

\* line 33: acquire the lock
AddLock(t) ==
    /\ proc = "up"
    /\ jpc[t] = "lock"
    /\ LockOf(t) \notin held
    /\ held' = held \cup {LockOf(t)}
    /\ jpc' = [jpc EXCEPT ![t] = "rows"]
    /\ UNCHANGED <<file, jarg, jrows, hist, proc, fresh>>

\* line 34: rows = self._rows()
AddRows(t) ==
    /\ proc = "up"
    /\ jpc[t] = "rows"
    /\ jrows' = [jrows EXCEPT ![t] = _rows(file.data)]
    /\ jpc' = [jpc EXCEPT ![t] = "check"]
    /\ UNCHANGED <<file, jarg, held, hist, proc, fresh>>

\* lines 35-36: the row is present: return, releasing the lock
AddPresent(t) ==
    /\ proc = "up"
    /\ jpc[t] = "check"
    /\ Present(jarg[t], jrows[t])
    /\ hist' = Append(hist, [thread |-> t, row |-> jarg[t],
                             before |-> jrows[t], after |-> file])
    /\ held' = held \ {LockOf(t)}
    /\ jpc' = [jpc EXCEPT ![t] = "idle"]
    /\ UNCHANGED <<file, jarg, jrows, proc, fresh>>

\* lines 35, 38: the row is absent: rows.append(row)
AddAppend(t) ==
    /\ proc = "up"
    /\ jpc[t] = "check"
    /\ ~Present(jarg[t], jrows[t])
    /\ jrows' = [jrows EXCEPT ![t] = Append(@, jarg[t])]
    /\ jpc' = [jpc EXCEPT ![t] = "save_open"]
    /\ UNCHANGED <<file, jarg, held, hist, proc, fresh>>

\* line 46: open(self._filename, mode="w")
SaveOpen(t) ==
    /\ proc = "up"
    /\ jpc[t] = "save_open"
    /\ file' = OpenTruncate(file)
    /\ jpc' = [jpc EXCEPT ![t] = "save_write"]
    /\ UNCHANGED <<jarg, jrows, held, hist, proc, fresh>>

\* line 47: f.write("\n".join(rows)), the file is closed, add returns and
\* releases the lock
SaveWrite(t) ==
    /\ proc = "up"
    /\ jpc[t] = "save_write"
    /\ file' = WriteAtStart(file, JoinLF(jrows[t]))
    /\ hist' = Append(hist, [thread |-> t, row |-> jarg[t],
                             before |-> Front(jrows[t]), after |-> file'])
    /\ held' = held \ {LockOf(t)}
    /\ jpc' = [jpc EXCEPT ![t] = "idle"]
    /\ UNCHANGED <<jarg, jrows, proc, fresh>>

\* the process stops where it is; its threads and locks are gone
Crash ==
    /\ proc = "up"
    /\ proc' = "crashed"
    /\ jpc' = [t \in Threads |-> "dead"]
    /\ held' = {}
    /\ UNCHANGED <<file, jarg, jrows, hist, fresh>>

\* a new process constructs UniqueJournal on the same file and reads it
FreshRead ==
    /\ \/ proc = "crashed"
       \/ proc = "up" /\ \A t \in Threads : jpc[t] = "idle"
    /\ file' = JournalInit(file)
    /\ fresh' = get_rows(file')
    /\ proc' = "restarted"
    /\ UNCHANGED <<jpc, jarg, jrows, held, hist>>

AddStep(t) ==
    \/ AddLock(t)
    \/ AddRows(t)
    \/ AddPresent(t)
    \/ AddAppend(t)
    \/ SaveOpen(t)
    \/ SaveWrite(t)

\* one caller, any identifier, then a restart
SeqInit == JournalInitState /\ SplitOff /\ MainOff

SeqNext ==
    \/ \E row \in Rows : AddCall("t1", row) /\ UNCHANGED <<svars, mvars>>
    \/ AddStep("t1") /\ UNCHANGED <<svars, mvars>>
    \/ FreshRead /\ UNCHANGED <<svars, mvars>>

SeqSpec == SeqInit /\ [][SeqNext]_vars

\* one caller, a crash at any point, then a restart
CrashNext ==
    \/ \E row \in Rows : AddCall("t1", row) /\ UNCHANGED <<svars, mvars>>
    \/ AddStep("t1") /\ UNCHANGED <<svars, mvars>>
    \/ Crash /\ UNCHANGED <<svars, mvars>>
    \/ FreshRead /\ UNCHANGED <<svars, mvars>>

CrashSpec == SeqInit /\ [][CrashNext]_vars

\* several threads of one process add one-line identifiers
ConcNext ==
    \/ \E t \in Threads, row \in OneLineRows : AddCall(t, row) /\ UNCHANGED <<svars, mvars>>
    \/ \E t \in Threads : AddStep(t) /\ UNCHANGED <<svars, mvars>>

ConcSpec == SeqInit /\ [][ConcNext]_vars

----------------------------------------------------------------------------
(* Claims about UniqueJournal. *)

AllReturned == \A t \in Threads : jpc[t] = "idle"

\* C5 as stated: once every concurrent add has returned, the journal holds
\* each added identifier, and holds it exactly once.
C5_NoLostUpdate ==
    AllReturned
        => \A i \in 1..Len(hist) : Count(hist[i].row, get_rows(file)) = 1

\* C6 as stated: a new process that reads the journal after the old one
\* stopped anywhere sees every (one-line) identifier whose add had returned.
C6_CrashKeepsCommitted ==
    proc = "restarted"
        => \A i \in 1..Len(hist) :
               OneLine(hist[i].row) => hist[i].row \in Range(fresh)

\* the second of two successive add calls with the same row left the file
\* as the first one left it, holding the row exactly once
SecondAddChangesNothing(i) ==
    /\ hist[i].after = hist[i - 1].after
    /\ Count(hist[i].row, get_rows(hist[i].after)) = 1

\* C7 as stated: for every journal content and every identifier, a second
\* add of the identifier leaves the journal as the first add left it, with
\* the identifier in it exactly once.
C7_AsStated ==
    \A i \in 2..Len(hist) :
        hist[i].row = hist[i - 1].row => SecondAddChangesNothing(i)

\* C7 amended: the same, for an identifier that is not empty and holds no
\* line break, and a journal that held no identifier twice before the first
\* add.
C7_Idempotent ==
    \A i \in 2..Len(hist) :
        (/\ hist[i].row = hist[i - 1].row
         /\ OneLine(hist[i].row)
         /\ NoDuplicates(hist[i - 1].before))
            => SecondAddChangesNothing(i)

\* C7 witness: an identifier absent from a non-empty journal was added twice
C7_Witness ==
    /\ Len(hist) >= 2
    /\ hist[Len(hist)].row = hist[Len(hist) - 1].row
    /\ OneLine(hist[Len(hist)].row)
    /\ hist[Len(hist) - 1].before # <<>>
    /\ ~Present(hist[Len(hist)].row, hist[Len(hist) - 1].before)

\* the new process reads the last added identifier and every identifier the
\* journal held before that add
FreshHasLastAdd ==
    LET h == hist[Len(hist)]
    IN /\ h.row \in Range(fresh)
       /\ Range(h.before) \subseteq Range(fresh)

\* C8 as stated: for every identifier, the empty string included, a new
\* process reads the identifier after add returned, and all earlier ones.
C8_AsStated ==
    (proc = "restarted" /\ hist # <<>>) => FreshHasLastAdd

\* C8 amended: the same, for an identifier that is not empty and holds no
\* line break.
C8_Durable ==
    (proc = "restarted" /\ hist # <<>> /\ OneLine(hist[Len(hist)].row))
        => FreshHasLastAdd

\* C8 witness: a new process has read a journal to which an identifier was
\* appended after others
C8_Witness ==
    /\ proc = "restarted"
    /\ hist # <<>>
    /\ OneLine(hist[Len(hist)].row)
    /\ hist[Len(hist)].before # <<>>
    /\ ~Present(hist[Len(hist)].row, hist[Len(hist)].before)

----------------------------------------------------------------------------
(* split_recipients_by_senders, statement by statement. *)

\* Sender is a dataclass: equal when email and password are equal
SenderPool ==
    {[email |-> "s1", password |-> "p1"],
     [email |-> "s1", password |-> "p2"],
     [email |-> "s2", password |-> "p1"]}

\* recipients are told apart by their email
SplitRecipientPool == {<<"a">>, <<"b">>}

JournalOff ==
    /\ file = NoFile
    /\ jpc = [t \in Threads |-> "idle"]
    /\ jarg = [t \in Threads |-> <<>>]
    /\ jrows = [t \in Threads |-> <<>>]
    /\ held = {}
    /\ hist = <<>>
    /\ proc = "off"
    /\ fresh = NotRead

\* line 143: result = {i: [] for i in senders}
EmptyResult(ss) == [s \in Range(ss) |-> <<>>]

\* a faulty variant of CycleNext: the iterator stays on the last sender
CycleNoWrap(ss, c) == IF c >= Len(ss) THEN c ELSE c + 1

\* itertools.cycle(senders): the position after position c
CycleNext(ss, c) == IF c >= Len(ss) THEN 1 ELSE c + 1

\* a faulty variant of Assign: the recipient is put at the front of the sequence
AssignFront(result, sender, q) == [result EXCEPT ![sender] = <<Head(q)>> \o @]

\* line 149: result[sender].append(recipients_queue.popleft())
Assign(result, sender, q) == [result EXCEPT ![sender] = Append(@, Head(q))]

\* lines 146-151 for a non-empty sender list, run to the end
RECURSIVE SplitLoop(_, _, _, _)
SplitLoop(result, c, q, ss) ==
    IF q = <<>> THEN result
    ELSE SplitLoop(Assign(result, ss[c], q), CycleNext(ss, c), Tail(q), ss)

\* the value the function returns (it returns none for no senders and
\* some recipients)
split_recipients_by_senders(ss, rs) ==
    SplitLoop(EmptyResult(ss), 1, rs, ss)

SplitInit ==
    /\ JournalOff
    /\ MainOff
    /\ s_senders \in SeqsUpTo(SenderPool, MaxSenders)
    /\ s_recipients \in SeqsUpTo(SplitRecipientPool, MaxSplitRecipients)
    /\ s_result = <<>>
    /\ s_cycle = 0
    /\ s_queue = <<>>
    /\ s_pc = "call"

\* lines 143-145
SplitEnter ==
    /\ s_pc = "call"
    /\ s_result' = EmptyResult(s_senders)
    /\ s_cycle' = 1
    /\ s_queue' = s_recipients
    /\ s_pc' = "while"
    /\ UNCHANGED <<s_senders, s_recipients>>

\* line 146, the queue is not empty: enter the for statement
SplitWhileTrue ==
    /\ s_pc = "while"
    /\ s_queue # <<>>
    /\ s_pc' = "for"
    /\ UNCHANGED <<s_senders, s_recipients, s_result, s_cycle, s_queue>>

\* line 146, the queue is empty; line 152: return result
SplitReturn ==
    /\ s_pc = "while"
    /\ s_queue = <<>>
    /\ s_pc' = "returned"
    /\ UNCHANGED <<s_senders, s_recipients, s_result, s_cycle, s_queue>>

\* lines 147-149: the cycle yields a sender, which gets the queue's head
SplitForAssign ==
    /\ s_pc = "for"
    /\ s_senders # <<>>
    /\ s_queue # <<>>
    /\ s_result' = Assign(s_result, s_senders[s_cycle], s_queue)
    /\ s_queue' = Tail(s_queue)
    /\ s_cycle' = CycleNext(s_senders, s_cycle)
    /\ UNCHANGED <<s_senders, s_recipients, s_pc>>

\* lines 147-151: the cycle yields a sender, popleft raises IndexError: break
SplitForBreak ==
    /\ s_pc = "for"
    /\ s_senders # <<>>
    /\ s_queue = <<>>
    /\ s_cycle' = CycleNext(s_senders, s_cycle)
    /\ s_pc' = "while"
    /\ UNCHANGED <<s_senders, s_recipients, s_result, s_queue>>

\* line 147: the cycle of no senders yields nothing: the for statement ends
SplitForExhausted ==
    /\ s_pc = "for"
    /\ s_senders = <<>>
    /\ s_pc' = "while"
    /\ UNCHANGED <<s_senders, s_recipients, s_result, s_cycle, s_queue>>

SplitNext ==
    \/ SplitEnter /\ UNCHANGED <<jvars, mvars>>
    \/ SplitWhileTrue /\ UNCHANGED <<jvars, mvars>>
    \/ SplitReturn /\ UNCHANGED <<jvars, mvars>>
    \/ SplitForAssign /\ UNCHANGED <<jvars, mvars>>
    \/ SplitForBreak /\ UNCHANGED <<jvars, mvars>>
    \/ SplitForExhausted /\ UNCHANGED <<jvars, mvars>>

SplitSpec == SplitInit /\ [][SplitNext]_vars

\* the interpreter keeps executing a call that has a statement to execute
SplitFairSpec == SplitInit /\ [][SplitNext]_vars /\ WF_vars(SplitNext)

----------------------------------------------------------------------------
(* Claims about split_recipients_by_senders. *)

\* how many times recipient r occurs in the sequences of the senders in keys
RECURSIVE Placed(_, _, _)
Placed(r, result, keys) ==
    IF keys = {} THEN 0
    ELSE LET k == CHOOSE k \in keys : TRUE
         IN Count(r, result[k]) + Placed(r, result, keys \ {k})

EveryRecipientPlacedOnce ==
    \A r \in Range(s_recipients) :
        Placed(r, s_result, DOMAIN s_result) = Count(r, s_recipients)

BalancedWithinOne ==
    \A k1, k2 \in DOMAIN s_result :
        Len(s_result[k1]) - Len(s_result[k2]) <= 1

\* the recipients whose index i (from 0) has senders[i mod len(senders)] = s,
\* in input order; n is the number of recipients already passed
RECURSIVE RoundRobinShare(_, _, _, _)
RoundRobinShare(s, ss, rs, n) ==
    IF rs = <<>> THEN <<>>
    ELSE (IF ss[(n % Len(ss)) + 1] = s THEN <<Head(rs)>> ELSE <<>>)
         \o RoundRobinShare(s, ss, Tail(rs), n + 1)

\* C2 as stated: for every non-empty sender list, repeated senders included,
\* the returned mapping holds every recipient exactly once and any two
\* senders' sequences differ in length by at most one.
C2_AsStated ==
    (s_pc = "returned" /\ s_senders # <<>>)
        => (EveryRecipientPlacedOnce /\ BalancedWithinOne)

\* C2 amended: the same, for sender lists in which no sender occurs twice.
C2_PartitionBalanced ==
    (s_pc = "returned" /\ s_senders # <<>> /\ NoDuplicates(s_senders))
        => (EveryRecipientPlacedOnce /\ BalancedWithinOne)

\* C2 witness: a returned split of more recipients than distinct senders
C2_Witness ==
    /\ s_pc = "returned"
    /\ Len(s_senders) = 3
    /\ NoDuplicates(s_senders)
    /\ Len(s_recipients) = 4

\* C3: the returned mapping is the round-robin one: its keys are the
\* senders, and each sender's sequence is the recipients at the indices
\* that the sender takes in the cycle, in input order.
C3_RoundRobin ==
    s_pc = "returned"
        => /\ DOMAIN s_result = Range(s_senders)
           /\ \A s \in Range(s_senders) :
                  s_result[s] = RoundRobinShare(s, s_senders, s_recipients, 0)

\* C3 witness: a returned split that wrapped around the sender list, and one
\* of some senders and no recipient
C3_Witness ==
    /\ s_pc = "returned"
    /\ Len(s_senders) >= 2
    /\ \/ Len(s_recipients) > Len(s_senders)
       \/ s_recipients = <<>>
    /\ \E s \in DOMAIN s_result : s_result[s] = <<>> \/ Len(s_result[s]) >= 2

\* C4 as stated: a call with no sender and some recipient ends in an error.
C4_EmptySendersRaise ==
    (s_pc = "call" /\ s_senders = <<>> /\ s_recipients # <<>>) ~> (s_pc = "raised")

----------------------------------------------------------------------------
(* main(): the run loop.  send_email is the environment: it returns or it  *)
(* raises.  processed_emails.add returns, or raises before it has changed  *)
(* the file (an open that fails); a process that stops inside _save is the *)
(* crash of MainCrashSpec.                                                 *)
(*                                                                         *)
(* Time is in seconds.  A send_email call takes 0 or LongSend seconds and  *)
(* a scheduler.enter call 0 or EnterTick seconds; the clock does not go    *)
(* backwards and time.sleep returns at the instant asked for.  Times are   *)
(* counted from the nominal start of the current iteration.                *)

EmailPool == {<<"a">>, <<"b">>, <<"c">>}

\* an identifier recorded by an earlier run with another recipient list
Foreign == <<"z">>

\* the Recipient objects of a loaded list: equal emails, distinct objects
Loaded(emails) == [i \in 1..Len(emails) |-> [email |-> emails[i], obj |-> i]]

MainDiskFiles ==
    {NoFile} \cup
    {_save(NoFile, r) :
        r \in {q \in SeqsUpTo(EmailPool \cup {Foreign}, MaxDiskRows) : NoDuplicates(q)}}

\* the emails in the order a, b, c
EmailRank(e) == CASE e = <<"a">> -> 1 [] e = <<"b">> -> 2 [] OTHER -> 3

\* the recipient lists main loads, up to a renaming of the emails: the
\* first email of a list is a, the next new one is b, the next new one c
RecipientLists ==
    {es \in SeqsUpTo(EmailPool, MaxRecipients) :
        \A i \in 1..Len(es) :
            EmailRank(es[i]) <= Cardinality({es[j] : j \in 1..(i - 1)}) + 1}

\* the sender lists main loads, up to a renaming of the senders: a list
\* begins with the same sender
SenderLists ==
    {ss \in SeqsUpTo(SenderPool, MaxMainSenders) :
        ss # <<>> => ss[1] = [email |-> "s1", password |-> "p1"]}

\* a faulty variant of Remaining: the journal is not consulted
RemainingAll(recs, rows) == recs

\* lines 250-252: [r for r in recipients if r.email not in get_rows()]
Remaining(recs, rows) == SelectSeq(recs, LAMBDA r : ~Present(r.email, rows))

\* the keys of a dict built from `senders`, in insertion order
RECURSIVE Keys(_)
Keys(ss) ==
    IF ss = <<>> THEN <<>>
    ELSE LET rest == Keys(Front(ss))
         IN IF ss[Len(ss)] \in Range(rest) THEN rest ELSE Append(rest, ss[Len(ss)])

Min(a, b) == IF a <= b THEN a ELSE b

\* a faulty variant of Limit: the cap is forgotten
LimitUncapped(recipients_part) == Len(recipients_part)

\* line 257: limit = min(len(recipients_part), 50)
Limit(recipients_part) == Min(Len(recipients_part), PassCap)

\* lines 258-260: the events entered for one sender, i = 0 .. limit - 1
EnterFor(sender, recipients_part) ==
    [k \in 1..Limit(recipients_part) |->
        [offset |-> (k - 1) * Stagger, sender |-> sender,
         recipient |-> recipients_part[k]]]

\* lines 256-260: the events in the order they are entered
RECURSIVE Entered(_, _)
Entered(senders_recipients, keys) ==
    IF keys = <<>> THEN <<>>
    ELSE EnterFor(Head(keys), senders_recipients[Head(keys)])
         \o Entered(senders_recipients, Tail(keys))

\* line 260, scheduler.enter(delay, ...): the event's time is the clock at
\* the call plus the delay; the k-th call is made (k - 1) * tick seconds
\* after the first
Stamp(events, clock, tick) ==
    [k \in 1..Len(events) |->
        [time |-> clock + (k - 1) * tick + events[k].offset,
         offset |-> events[k].offset,
         sender |-> events[k].sender,
         recipient |-> events[k].recipient]]

\* a faulty variant of RunOrder: the events run in the order of their entry
RunOrderOfEntry(events) == events

\* sched: events run by time, and by order of entry at equal times
RunOrder(events) ==
    LET Before(i, j) ==
            \/ events[i].time < events[j].time
            \/ events[i].time = events[j].time /\ i < j
        Rank(i) == Cardinality({j \in 1..Len(events) : Before(j, i)}) + 1
    IN [k \in 1..Len(events) |->
           events[CHOOSE i \in 1..Len(events) : Rank(i) = k]]

\* a faulty variant of AfterEvent: an exception of the action leaves
\* scheduler.run() and the events that were left are dropped
AfterEventAborted(q) == <<>>

\* scheduler.run(): the event that ran is removed from the queue
AfterEvent(q) == Tail(q)

Max(a, b) == IF a >= b THEN a ELSE b

\* scheduler.run(): the delay function is called when the event's time is
\* in the future, so the action starts at the later of the two times
StartOf(event, clock) == Max(clock, event.time)

\* the time a send_email call takes
SendTimes == {0, LongSend}

\* the time a scheduler.enter call takes
EnterTimes == {0, EnterTick}

Ran(event, start, end) ==
    Append(runs, [sender |-> event.sender, offset |-> event.offset,
                  start |-> start, end |-> end])

\* one more send_email call returned for the email (counted up to 2)
CountSend(d, email) == [d EXCEPT ![email] = Min(@ + 1, 2)]

\* a faulty variant of JournalAfterFailedSend: the email is recorded in a finally
\* clause, after a failed send too
JournalAfterFailedSendRecords(f, email) == add(f, email)

\* lines 221-222: the except branch logs the failure and leaves the journal
JournalAfterFailedSend(f, email) == f

Logged(outcome) ==
    Append(pass_log, [sender |-> task.sender, recipient |-> task.recipient,
                      outcome |-> outcome])

MainInit ==
    /\ SplitOff
    /\ file \in MainDiskFiles
    /\ jpc = [t \in Threads |-> "idle"]
    /\ jarg = [t \in Threads |-> <<>>]
    /\ jrows = [t \in Threads |-> <<>>]
    /\ held = {}
    /\ hist = <<>>
    /\ proc = "off"
    /\ fresh = NotRead
    /\ senders \in SenderLists
    /\ recipients \in {Loaded(es) : es \in RecipientLists}
    /\ mpc = "start"
    /\ passes = 0
    /\ remaining = <<>>
    /\ plan = <<>>
    /\ queue = <<>>
    /\ task = NoTask
    /\ pass_rows = <<>>
    /\ pass_log = <<>>
    /\ delivered = [e \in EmailPool |-> 0]
    /\ unrecorded = FALSE
    /\ restarted = FALSE
    /\ now = 0
    /\ next_iteration_at = 0
    /\ pass_at = 0
    /\ runs = <<>>

\* lines 243-247: the lists are loaded, the journal is constructed
MainStart ==
    /\ mpc = "start"
    /\ file' = JournalInit(file)
    /\ next_iteration_at' = now
    /\ mpc' = "pending"
    /\ UNCHANGED <<senders, recipients, passes, remaining, plan, queue, task,
                   pass_rows, pass_log, delivered, unrecorded, restarted,
                   now, pass_at, runs>>

\* lines 249-253: an iteration begins with the recipients left.  Times are
\* counted from the nominal start of the iteration, so the clock and
\* next_iteration_at are shifted back by next_iteration_at; the iterations
\* are counted up to MaxPasses.
MainPending ==
    /\ mpc = "pending"
    /\ passes' = Min(passes + 1, MaxPasses)
    /\ pass_rows' = get_rows(file)
    /\ remaining' = Remaining(recipients, get_rows(file))
    /\ now' = now - next_iteration_at
    /\ next_iteration_at' = 0
    /\ pass_at' = now - next_iteration_at
    /\ mpc' = "distribute"
    /\ UNCHANGED <<file, senders, recipients, plan, queue, task, pass_log,
                   delivered, unrecorded, restarted, runs>>

\* lines 255-260: the split returns and the events are entered
MainDistribute ==
    /\ mpc = "distribute"
    /\ senders # <<>> \/ remaining = <<>>
    /\ \E senders_recipients \in {split_recipients_by_senders(senders, remaining)},
          tick \in EnterTimes :
           \E entered \in {Stamp(Entered(senders_recipients, Keys(senders)), now, tick)} :
               /\ plan' = senders_recipients
               /\ queue' = RunOrder(entered)
               /\ now' = now + Len(entered) * tick
    /\ pass_log' = <<>>
    /\ runs' = <<>>
    /\ mpc' = "run"
    /\ UNCHANGED <<file, senders, recipients, passes, remaining, task,
                   pass_rows, delivered, unrecorded, restarted,
                   next_iteration_at, pass_at>>

\* line 255 with no sender and some recipient left: the split never returns
MainSplitSpins ==
    /\ mpc = "distribute"
    /\ senders = <<>>
    /\ remaining # <<>>
    /\ UNCHANGED <<file, senders, recipients, mpc, passes, remaining, plan,
                   queue, task, pass_rows, pass_log, delivered, unrecorded, restarted,
                   now, next_iteration_at, pass_at, runs>>

\* line 261, lines 218-222: the next event runs and send_email raises
TaskSendFails ==
    /\ mpc = "run"
    /\ queue # <<>>
    /\ queue' = AfterEvent(queue)
    /\ file' = JournalAfterFailedSend(file, Head(queue).recipient.email)
    /\ pass_log' = Append(pass_log, [sender |-> Head(queue).sender,
                                     recipient |-> Head(queue).recipient,
                                     outcome |-> "failed"])
    /\ \E took \in SendTimes :
           /\ now' = StartOf(Head(queue), now) + took
           /\ runs' = Ran(Head(queue), StartOf(Head(queue), now), now')
    /\ UNCHANGED <<senders, recipients, mpc, passes, remaining, plan, task,
                   pass_rows, delivered, unrecorded, restarted,
                   next_iteration_at, pass_at>>

\* line 261, lines 218-225: the next event runs and send_email returns
TaskSendReturns ==
    /\ mpc = "run"
    /\ queue # <<>>
    /\ task' = Head(queue)
    /\ queue' = AfterEvent(queue)
    /\ delivered' = CountSend(delivered, Head(queue).recipient.email)
    /\ \E took \in SendTimes :
           /\ now' = StartOf(Head(queue), now) + took
           /\ runs' = Ran(Head(queue), StartOf(Head(queue), now), now')
    /\ mpc' = "task_add"
    /\ UNCHANGED <<file, senders, recipients, passes, remaining, plan,
                   pass_rows, pass_log, unrecorded, restarted,
                   next_iteration_at, pass_at>>

\* lines 227-228: processed_emails.add(recipient.email) returns
TaskAddReturns ==
    /\ mpc = "task_add"
    /\ file' = add(file, task.recipient.email)
    /\ pass_log' = Logged("recorded")
    /\ task' = NoTask
    /\ mpc' = "run"
    /\ UNCHANGED <<senders, recipients, passes, remaining, plan, queue,
                   pass_rows, delivered, unrecorded, restarted,
                   now, next_iteration_at, pass_at, runs>>

\* a faulty variant of JournalAfterFailedAdd: the row is saved before the
\* call raises
JournalAfterFailedAddSaved(f, email) == add(f, email)

\* line 228: add raised before it changed the file
JournalAfterFailedAdd(f, email) == f

\* lines 227-230: processed_emails.add raises, the task logs it and ends
TaskAddRaises ==
    /\ mpc = "task_add"
    /\ file' = JournalAfterFailedAdd(file, task.recipient.email)
    /\ pass_log' = Logged("unrecorded")
    /\ unrecorded' = TRUE
    /\ task' = NoTask
    /\ mpc' = "run"
    /\ UNCHANGED <<senders, recipients, passes, remaining, plan, queue,
                   pass_rows, delivered, restarted,
                   now, next_iteration_at, pass_at, runs>>

\* line 261: scheduler.run() returns when no event is left
MainRunReturns ==
    /\ mpc = "run"
    /\ queue = <<>>
    /\ mpc' = "check"
    /\ UNCHANGED <<file, senders, recipients, passes, remaining, plan, queue,
                   task, pass_rows, pass_log, delivered, unrecorded, restarted,
                   now, next_iteration_at, pass_at, runs>>

\* line 263: len(recipients) == len(processed_emails.get_rows())
Complete == Len(recipients) = Len(get_rows(file))

\* lines 263-265: exit()
MainExit ==
    /\ mpc = "check"
    /\ Complete
    /\ mpc' = "exited"
    /\ UNCHANGED <<file, senders, recipients, passes, remaining, plan, queue,
                   task, pass_rows, pass_log, delivered, unrecorded, restarted,
                   now, next_iteration_at, pass_at, runs>>

\* line 270: the argument of time.sleep, next_iteration_at being the value
\* before line 267
SleepSeconds(at, clock) == (at + Day) - clock

\* lines 263, 267-270: a day is added to next_iteration_at and the process
\* sleeps until then
MainSleep ==
    /\ mpc = "check"
    /\ ~Complete
    /\ SleepSeconds(next_iteration_at, now) >= 0
    /\ next_iteration_at' = next_iteration_at + Day
    /\ now' = now + SleepSeconds(next_iteration_at, now)
    /\ mpc' = "pending"
    /\ UNCHANGED <<file, senders, recipients, passes, remaining, plan, queue,
                   task, pass_rows, pass_log, delivered, unrecorded, restarted,
                   pass_at, runs>>

\* lines 263, 267-270: time.sleep is given a negative number and raises
\* ValueError, which leaves main()
MainSleepRaises ==
    /\ mpc = "check"
    /\ ~Complete
    /\ SleepSeconds(next_iteration_at, now) < 0
    /\ next_iteration_at' = next_iteration_at + Day
    /\ mpc' = "raised"
    /\ UNCHANGED <<file, senders, recipients, passes, remaining, plan, queue,
                   task, pass_rows, pass_log, delivered, unrecorded, restarted,
                   now, pass_at, runs>>

\* the process stops between two statements
MainCrash ==
    /\ mpc \in {"pending", "distribute", "run", "task_add", "check"}
    /\ mpc' = "crashed"
    /\ unrecorded' = (unrecorded \/ mpc = "task_add")
    /\ UNCHANGED <<file, senders, recipients, passes, remaining, plan, queue,
                   task, pass_rows, pass_log, delivered, restarted,
                   now, next_iteration_at, pass_at, runs>>

\* the process stops inside _save, between line 46 and line 47
MainCrashInSave ==
    /\ mpc = "task_add"
    /\ ~Present(task.recipient.email, get_rows(file))
    /\ file' = OpenTruncate(file)
    /\ mpc' = "crashed"
    /\ unrecorded' = TRUE
    /\ UNCHANGED <<senders, recipients, passes, remaining, plan, queue, task,
                   pass_rows, pass_log, delivered, restarted,
                   now, next_iteration_at, pass_at, runs>>

\* the program is started again with the same files: lines 243-247
MainRestart ==
    /\ mpc = "crashed"
    /\ file' = JournalInit(file)
    /\ mpc' = "pending"
    /\ remaining' = <<>>
    /\ plan' = <<>>
    /\ queue' = <<>>
    /\ task' = NoTask
    /\ pass_rows' = <<>>
    /\ pass_log' = <<>>
    /\ restarted' = TRUE
    /\ now' = 0
    /\ next_iteration_at' = 0
    /\ pass_at' = 0
    /\ runs' = <<>>
    /\ UNCHANGED <<senders, recipients, passes, delivered, unrecorded>>

MainNext ==
    \/ MainStart /\ UNCHANGED <<jpc, jarg, jrows, held, hist, proc, fresh, svars>>
    \/ MainPending /\ UNCHANGED <<jpc, jarg, jrows, held, hist, proc, fresh, svars>>
    \/ MainDistribute /\ UNCHANGED <<jpc, jarg, jrows, held, hist, proc, fresh, svars>>
    \/ MainSplitSpins /\ UNCHANGED <<jpc, jarg, jrows, held, hist, proc, fresh, svars>>
    \/ TaskSendFails /\ UNCHANGED <<jpc, jarg, jrows, held, hist, proc, fresh, svars>>
    \/ TaskSendReturns /\ UNCHANGED <<jpc, jarg, jrows, held, hist, proc, fresh, svars>>
    \/ TaskAddReturns /\ UNCHANGED <<jpc, jarg, jrows, held, hist, proc, fresh, svars>>
    \/ TaskAddRaises /\ UNCHANGED <<jpc, jarg, jrows, held, hist, proc, fresh, svars>>
    \/ MainRunReturns /\ UNCHANGED <<jpc, jarg, jrows, held, hist, proc, fresh, svars>>
    \/ MainExit /\ UNCHANGED <<jpc, jarg, jrows, held, hist, proc, fresh, svars>>
    \/ MainSleep /\ UNCHANGED <<jpc, jarg, jrows, held, hist, proc, fresh, svars>>
    \/ MainSleepRaises /\ UNCHANGED <<jpc, jarg, jrows, held, hist, proc, fresh, svars>>

\* one process, no crash
MainSpec == MainInit /\ [][MainNext]_vars

MainCrashNext ==
    \/ MainNext
    \/ MainCrash /\ UNCHANGED <<jpc, jarg, jrows, held, hist, proc, fresh, svars>>
    \/ MainCrashInSave /\ UNCHANGED <<jpc, jarg, jrows, held, hist, proc, fresh, svars>>
    \/ MainRestart /\ UNCHANGED <<jpc, jarg, jrows, held, hist, proc, fresh, svars>>

\* the process may stop anywhere and be started again
MainCrashSpec == MainInit /\ [][MainCrashNext]_vars

\* the runs with at most one sender
MainOneSenderInit == MainInit /\ Len(senders) <= 1

\* the interpreter keeps executing a process that has a statement to execute
MainFairSpec == MainOneSenderInit /\ [][MainNext]_vars /\ WF_vars(MainNext)

\* send_email returns for the i-th loaded recipient
SendReturnsTo(i) ==
    /\ TaskSendReturns
    /\ Head(queue).recipient.obj = i
    /\ UNCHANGED <<jpc, jarg, jrows, held, hist, proc, fresh, svars>>

\* the run loop with a journal whose writes succeed: add never raises
MainLuckyNext ==
    \/ MainStart /\ UNCHANGED <<jpc, jarg, jrows, held, hist, proc, fresh, svars>>
    \/ MainPending /\ UNCHANGED <<jpc, jarg, jrows, held, hist, proc, fresh, svars>>
    \/ MainDistribute /\ UNCHANGED <<jpc, jarg, jrows, held, hist, proc, fresh, svars>>
    \/ MainSplitSpins /\ UNCHANGED <<jpc, jarg, jrows, held, hist, proc, fresh, svars>>
    \/ TaskSendFails /\ UNCHANGED <<jpc, jarg, jrows, held, hist, proc, fresh, svars>>
    \/ TaskSendReturns /\ UNCHANGED <<jpc, jarg, jrows, held, hist, proc, fresh, svars>>
    \/ TaskAddReturns /\ UNCHANGED <<jpc, jarg, jrows, held, hist, proc, fresh, svars>>
    \/ MainRunReturns /\ UNCHANGED <<jpc, jarg, jrows, held, hist, proc, fresh, svars>>
    \/ MainExit /\ UNCHANGED <<jpc, jarg, jrows, held, hist, proc, fresh, svars>>
    \/ MainSleep /\ UNCHANGED <<jpc, jarg, jrows, held, hist, proc, fresh, svars>>
    \/ MainSleepRaises /\ UNCHANGED <<jpc, jarg, jrows, held, hist, proc, fresh, svars>>

\* the process keeps running, journal writes succeed, and the send to a
\* recipient that is attempted again and again does not fail forever
MainLuckySpec ==
    /\ MainOneSenderInit
    /\ [][MainLuckyNext]_vars
    /\ WF_vars(MainLuckyNext)
    /\ \A i \in 1..MaxRecipients : SF_vars(SendReturnsTo(i))

----------------------------------------------------------------------------
(* Claims about the run loop. *)

LoadedEmails == {recipients[i].email : i \in 1..Len(recipients)}

DistinctEmails ==
    \A i, j \in 1..Len(recipients) :
        recipients[i].email = recipients[j].email => i = j

JournalStepGrows ==
    /\ Range(get_rows(file)) \subseteq Range(get_rows(file'))
    /\ file.exists => file'.exists
    /\ (file.exists /\ file.data # <<>>) => file'.data # <<>>

LoggedEmails(outcomes) ==
    {pass_log[i].recipient.email :
        i \in {j \in 1..Len(pass_log) : pass_log[j].outcome \in outcomes}}

InPass == mpc \in {"run", "task_add", "check"}

\* no Recipient is attempted twice in a pass: the tasks already run are of
\* different recipients, none of which is still scheduled
AttemptedOnce ==
    InPass =>
        /\ \A i, j \in 1..Len(pass_log) :
               pass_log[i].recipient = pass_log[j].recipient => i = j
        /\ \A i \in 1..Len(pass_log), j \in 1..Len(queue) :
               pass_log[i].recipient # queue[j].recipient

\* the previous pass is over and the next one has computed `remaining`
NextPassBegun == mpc = "distribute" /\ passes >= 2

----------------------------------------------------------------------------
(* Claims about the tasks of a pass. *)

\* the (sender, recipient) pairs of a sequence of events or of log entries
PairsOf(q) ==
    {[sender |-> q[i].sender, recipient |-> q[i].recipient] : i \in 1..Len(q)}

\* the events the pass entered, in the order of entry
Scheduled == Entered(plan, Keys(senders))

\* the event whose action is between send_email and the end of add
Running == IF mpc = "task_add" THEN <<task>> ELSE <<>>

\* the tasks that ran, the one that runs and the ones that wait are the
\* scheduled ones, each once
NoTaskLost ==
    /\ Len(pass_log) + Len(Running) + Len(queue) = Len(Scheduled)
    /\ PairsOf(pass_log) \cup PairsOf(Running) \cup PairsOf(queue)
           = PairsOf(Scheduled)

\* the pass is over: the process is at the completion check or past it
PassOver == mpc \in {"check", "exited", "raised"}

\* C11: whatever the outcomes of the sends, no task of a pass is lost: while
\* the pass runs the tasks that ran and those that wait are the scheduled
\* ones, and the process reaches the completion check, or ends, only when
\* every scheduled task has run.
C11_FailureIsolation ==
    /\ InPass => NoTaskLost
    /\ PassOver =>
           /\ queue = <<>>
           /\ Len(pass_log) = Len(Scheduled)
           /\ PairsOf(pass_log) = PairsOf(Scheduled)

\* C11 witness: the pass is at its completion check, its first task failed
\* and the tasks after it ran, one of them with success
C11_Witness ==
    /\ mpc = "check"
    /\ Len(pass_log) = 3
    /\ pass_log[1].outcome = "failed"
    /\ pass_log[2].outcome = "recorded"
    /\ pass_log[3].outcome = "failed"

\* the recipients of sender s in a sequence of events or log entries, in order
RECURSIVE RecipientsOf(_, _)
RecipientsOf(s, q) ==
    IF q = <<>> THEN <<>>
    ELSE (IF Head(q).sender = s THEN <<Head(q).recipient>> ELSE <<>>)
         \o RecipientsOf(s, Tail(q))

\* the tasks of the pass in the order they run
PassTasks == pass_log \o Running \o queue

\* for every sender the tasks of the pass are the first min(len, cap)
\* recipients assigned to it, in the order of assignment
CappedPrefix ==
    InPass =>
        \A s \in DOMAIN plan :
            /\ RecipientsOf(s, PassTasks)
                   = SubSeq(plan[s], 1, Min(Len(plan[s]), PassCap))
            /\ Len(RecipientsOf(s, PassTasks)) <= PassCap

\* the recipients assigned beyond the cap in the pass that is over
BeyondCap ==
    UNION {{plan[s][k] : k \in (PassCap + 1)..Len(plan[s])} : s \in DOMAIN plan}

\* C12 as stated: the tasks of a sender are the first min(len, cap) of its
\* assigned recipients, and every recipient assigned beyond the cap is not
\* attempted in the pass and is pending at the start of the next pass.
C12_AsStated ==
    /\ CappedPrefix
    /\ InPass => \A r \in BeyondCap : r \notin {pass_log[i].recipient : i \in 1..Len(pass_log)}
    /\ NextPassBegun => \A r \in BeyondCap : r \in Range(remaining)

\* C12 amended: the same, but a recipient assigned beyond the cap is pending
\* at the start of the next pass unless a send of the pass to another loaded
\* recipient with the same email succeeded and was recorded.
C12_PerPassCap ==
    /\ CappedPrefix
    /\ InPass => \A r \in BeyondCap : r \notin {pass_log[i].recipient : i \in 1..Len(pass_log)}
    /\ NextPassBegun =>
           \A r \in BeyondCap :
               r.email \notin LoggedEmails({"recorded"}) => r \in Range(remaining)

\* C12 witness: a sender was assigned more recipients than the cap, the
\* sends of the pass succeeded, and the next pass has the one beyond the cap
\* left
C12_Witness ==
    /\ NextPassBegun
    /\ DistinctEmails
    /\ \E s \in DOMAIN plan : Len(plan[s]) = PassCap + 1
    /\ Len(pass_log) = PassCap
    /\ \A i \in 1..Len(pass_log) : pass_log[i].outcome = "recorded"
    /\ Len(remaining) = 1
    /\ remaining[1] \in BeyondCap

\* how many of the runs before the i-th are of the same sender
EarlierOfSender(i) ==
    Cardinality({j \in 1..(i - 1) : runs[j].sender = runs[i].sender})

\* C13: the k-th task of a sender (from 0) starts no earlier than k times
\* 1560 seconds after the start of the pass, the tasks run in non-decreasing
\* order of their offsets, and a task starts only when the one before it
\* has ended.
C13_StaggerAndOrder ==
    /\ \A i \in 1..Len(runs) :
           /\ runs[i].start >= pass_at + EarlierOfSender(i) * Stagger
           /\ runs[i].start <= runs[i].end
    /\ \A i, j \in 1..Len(runs) : i < j => runs[i].offset <= runs[j].offset
    /\ \A i \in 1..(Len(runs) - 1) : runs[i].end <= runs[i + 1].start
    /\ Len(Running) <= 1

\* C13 witness: two senders had three tasks, the first of which took long,
\* so that the last, a second task of its sender, started late
C13_Witness ==
    /\ mpc = "check"
    /\ Len(runs) = 3
    /\ runs[1].sender # runs[2].sender
    /\ runs[1].end - runs[1].start = LongSend
    /\ runs[3].offset = Stagger
    /\ runs[3].start > pass_at + Stagger

----------------------------------------------------------------------------
(* Claims about the completion check and the sleep. *)

AllRecorded == LoadedEmails \subseteq Range(get_rows(file))

\* C14 as stated: when the loop has ended by the exit of the completion
\* check, every loaded recipient's email is in the journal.
C14_ExitMeansAllRecorded == mpc = "exited" => AllRecorded

\* the process slept after a pass and is at the top of the loop again
Slept == mpc = "pending" /\ next_iteration_at # 0

\* the pass began with a journal that held loaded emails only, as every
\* journal that was empty at first does
NoForeignRow == Range(pass_rows) \subseteq LoadedEmails

\* every loaded recipient was sent to in the pass, and every send succeeded
\* and was recorded
AllSentInPass ==
    /\ Len(pass_log) = Len(recipients)
    /\ \A i \in 1..Len(pass_log) : pass_log[i].outcome = "recorded"

\* C15 as stated: the loop ends at the completion check exactly when the
\* number of loaded recipients equals the number of journal rows; with
\* distinct emails and a journal empty at first, a pass that sent to every
\* recipient with success is followed by the exit, the journal holding
\* exactly the loaded emails, and a pass that leaves a recipient pending is
\* followed by the sleep and another pass, never by the end of the process.
C15_CompletionCheck ==
    /\ mpc = "exited" => Complete
    /\ (Slept \/ mpc = "raised") => ~Complete
    /\ (DistinctEmails /\ passes = 1 /\ pass_rows = <<>>
            /\ AllSentInPass /\ (PassOver \/ Slept))
           => (mpc \in {"check", "exited"}
               /\ Range(get_rows(file)) = LoadedEmails /\ Complete)
    /\ (DistinctEmails /\ NoForeignRow /\ PassOver /\ ~AllRecorded)
           => mpc = "check"

\* C17 as stated: when add raises in a task, the tasks after it still run,
\* the pass reaches its completion check, and the recipient is absent from
\* the journal and pending at the start of the next pass.
C17_AsStated ==
    /\ InPass => NoTaskLost
    /\ mpc = "check" => Len(pass_log) = Len(Scheduled)
    /\ NextPassBegun =>
           \A i \in 1..Len(pass_log) :
               pass_log[i].outcome = "unrecorded"
                   => /\ pass_log[i].recipient \in Range(remaining)
                      /\ ~Present(pass_log[i].recipient.email, get_rows(file))

\* C17 amended: the same, but the recipient is absent from the journal and
\* pending at the start of the next pass unless a send of the pass to
\* another loaded recipient with the same email succeeded and was recorded.
C17_AddFailureNonFatal ==
    /\ InPass => NoTaskLost
    /\ mpc = "check" => Len(pass_log) = Len(Scheduled)
    /\ NextPassBegun =>
           \A i \in 1..Len(pass_log) :
               (/\ pass_log[i].outcome = "unrecorded"
                /\ pass_log[i].recipient.email \notin LoggedEmails({"recorded"}))
                   => /\ pass_log[i].recipient \in Range(remaining)
                      /\ ~Present(pass_log[i].recipient.email, get_rows(file))

\* C17 witness: add raised in the first task of a pass, a later task ran,
\* and the next pass has the recipient of the first task left
C17_Witness ==
    /\ NextPassBegun
    /\ Len(pass_log) >= 2
    /\ pass_log[1].outcome = "unrecorded"
    /\ pass_log[2].outcome = "recorded"
    /\ pass_log[1].recipient \in Range(remaining)
    /\ pass_log[2].recipient \notin Range(remaining)

\* C18 as stated: after every pass the process sleeps until exactly a day
\* after the nominal start of the iteration, and keeps running, also when
\* the pass ended after that instant.
C18_StableCadence ==
    /\ mpc # "raised"
    /\ Slept => (now = next_iteration_at /\ next_iteration_at = Day)

----------------------------------------------------------------------------
(* Claims about the progress of the run loop. *)

Ended == mpc \in {"exited", "raised"}

\* C16 as stated: with at least one sender, journal writes that succeed and
\* sends that do not fail forever, the loop eventually exits with every
\* loaded recipient's email in the journal, for every recipient list and
\* every journal found at the start.
C16_EventualCompletion ==
    senders # <<>> => <>(mpc = "exited" /\ AllRecorded)

\* the i-th loaded recipient was attempted in the pass
Attempted(i) == \E j \in 1..Len(pass_log) : pass_log[j].recipient.obj = i

\* the email of the i-th loaded recipient is in the journal
Recorded(i) ==
    i <= Len(recipients) /\ Present(recipients[i].email, get_rows(file))

\* a pass begins to run its tasks with the i-th loaded recipient pending
PendingAtPass(i) ==
    /\ mpc = "run"
    /\ pass_log = <<>>
    /\ senders # <<>>
    /\ i <= Len(recipients)
    /\ recipients[i] \in Range(remaining)

\* C19 as stated: whatever the outcomes of the sends, a recipient that is
\* pending when a pass begins is attempted in that pass or a later one,
\* unless the loop ends or the recipient's email gets recorded first.
C19_NoStarvation ==
    \A i \in 1..MaxRecipients :
        PendingAtPass(i)
            ~> (\/ Attempted(i)
                \/ Ended
                \/ Recorded(i))

----------------------------------------------------------------------------
(* Claims about the identity of senders. *)

SenderEmails(ss) == {ss[i].email : i \in 1..Len(ss)}

\* C20 as stated: the mapping returned by the split has exactly one key for
\* every distinct sender email.
C20_OneKeyPerEmail ==
    s_pc = "returned"
        => Cardinality(DOMAIN s_result) = Cardinality(SenderEmails(s_senders))

====
